---- MODULE Spec2Model ----
(***************************************************************************)
(* WorstBot (Underfish_V2): the move selector pick_worst_survivable_move   *)
(* and the game threads that call it on the one shared engine.             *)
(*                                                                         *)
(* A position is abstracted to what the selector reads of it: the number   *)
(* of legal moves (the moves are 1..legal_moves, in list order) and        *)
(* whether the side to move is in check.  The engine is an oracle: every   *)
(* engine.analyse call either raises or returns an info whose score is     *)
(* drawn from a bounded set.  Scores are from the bot's point of view.     *)
(*                                                                         *)
(* The repository holds two copies of the selector, src/main.py and        *)
(* src/bot.py.  Their control flow differs in one place, the handler of a  *)
(* failed best-move query of the mate-loss ratio rule (main.py 148-149,    *)
(* bot.py 207-208); impl says which copy runs.  (The default eval_depth    *)
(* differs too, 16 and 10; depths are not modelled.)                       *)
(***************************************************************************)
EXTENDS Integers, Sequences, FiniteSets, TLC

\* ---------------------------------------------------------------- bounds
MaxMoves == 4
MaxEvents == 1
GameMaxMoves == 1

\* ------------------------------------------------------ program constants
cp_cap_one_move == 550
cp_cap_total == -925
survival_eval_floor == -1250
survival_mate_ratio_den == 4

Games == {"g1", "g2"}
Impls == {"main.py", "bot.py"}

\* Optional values: None is <<>>, a present value v is <<v>>.
None == <<>>
Some(v) == <<v>>
Val(o) == o[1]

\* ------------------------------------------------------- evaluator values
\* Centipawn values the evaluator gives for the position itself, and for the
\* position after a move.  With cp_cap_one_move = 550: from baseline -750
\* the drop to -1300 is exactly 550, from baseline -700 and 0 it is larger.
BaseCpVals == {-1300, -750, -700}
AfterCpVals == {-1300, -700}
MateVals == {-1, 0, 1}

\* The score of an info.  "none": info has no score.  "cp"/"mate": a PovScore.
\* "textmate"/"textnum"/"textnone": an object without pov()/white()/relative,
\* whose str() holds "#n", a bare number, or neither.
Scores(cps) ==
    {[t |-> "none", v |-> 0], [t |-> "textnone", v |-> 0]}
    \cup {[t |-> k, v |-> c] : k \in {"cp", "textnum"}, c \in cps}
    \cup {[t |-> k, v |-> n] : k \in {"mate", "textmate"}, n \in MateVals}

\* What engine.analyse(position, limit) does: raise, or return an info.
Replies(cps) == {[k |-> "raise", score |-> [t |-> "none", v |-> 0]]}
                \cup {[k |-> "info", score |-> s] : s \in Scores(cps)}

BaseReplies == Replies(BaseCpVals)
AfterReplies == Replies(AfterCpVals)

\* The replies drawn when several games run at once.
GameReplies ==
    {r \in AfterReplies : \/ r.k = "raise"
                          \/ r.score \in {[t |-> "cp", v |-> -1300],
                                           [t |-> "cp", v |-> -700],
                                           [t |-> "mate", v |-> -1]}}

\* What engine.analyse(board, limit, multipv=1) followed by [0]["pv"][0] does:
\* the call raises, the info has no pv, or the pv starts with move m.
BestReplies(n) == {[k |-> "raise", m |-> 0], [k |-> "nopv", m |-> 0]}
                  \cup {[k |-> "pv", m |-> m] : m \in 1..n}

\* _get_cp_and_mate_from_info: the pair <<cp, mate>>.
get_cp_and_mate_from_info(info) ==
    LET s == info.score IN
    CASE s.t = "none" -> <<None, None>>
      [] s.t = "mate" -> <<None, Some(s.v)>>
      [] s.t = "cp" -> <<Some(s.v), None>>
      [] s.t = "textmate" -> <<None, Some(s.v)>>
      [] s.t = "textnum" -> <<Some(s.v), None>>
      [] OTHER -> <<None, None>>

\* What the analysis of the position after a move gave: it failed (raised),
\* or it gave the pair <<cp, mate>>.
Unseen == [st |-> "unseen", cp |-> None, mate |-> None]
Outcome(r) ==
    IF r.k = "raise" THEN [st |-> "failed", cp |-> None, mate |-> None]
    ELSE [st |-> "ok", cp |-> get_cp_and_mate_from_info(r)[1],
          mate |-> get_cp_and_mate_from_info(r)[2]]

VARIABLES
    impl,               \* which copy of the selector runs
    engineBusy,         \* the threads inside engine.analyse on the shared
                        \* engine (main.py line 18)
    events,             \* per game: events its stream still delivers
    pc,                 \* per thread: position in handle_game / the selector
    legal_moves,        \* per thread: len(list(board.legal_moves))
    in_check,           \* per thread: board.is_check()
    cur_cp,             \* per thread: the baseline
    idx,                \* per thread: the scan loop's position in legal_moves
    move_candidates,    \* per thread: sequence of <<cp_after, move>>
    mate_losses,        \* per thread
    winning_mate_move,  \* per thread: None or Some(move)
    result,             \* per thread: the returned value, None or Some(move)
    retBy,              \* per thread: the return statement that returned
    scanned,            \* per thread: per move, what the analysis of the
                        \* position after it gives (for a position in check,
                        \* where the selector never asks: what it would give)
    bestReplies,        \* per thread: what each best_info[0]["pv"][0] gave
    queries             \* per thread: engine.analyse calls made, by kind

vars == <<impl, engineBusy, events, pc, legal_moves, in_check, cur_cp, idx,
          move_candidates, mate_losses, winning_mate_move, result, retBy,
          scanned, bestReplies, queries>>

locals == <<cur_cp, idx, move_candidates, mate_losses, winning_mate_move>>

Upd(f, t, v) == [f EXCEPT ![t] = v]

NoQueries == [cur |-> 0, best |-> 0, move |-> [m \in 1..MaxMoves |-> 0]]

\* The engine.analyse call sites, by the kind of query made there.
BestSites == {"check_best", "ratio_best", "floor_best", "fallback_best"}
CurSites == {"baseline", "floor"}
QuerySites == BestSites \cup CurSites \cup {"scan"}

\* A thread enters engine.analyse on the shared global engine.  Nothing
\* guards the engine: no lock is taken.
EngineCall(t) ==
    /\ pc[t] \in QuerySites
    /\ t \notin engineBusy
    /\ engineBusy' = engineBusy \cup {t}
    /\ queries' = Upd(queries, t,
          IF pc[t] \in BestSites THEN [queries[t] EXCEPT !.best = @ + 1]
          ELSE IF pc[t] \in CurSites THEN [queries[t] EXCEPT !.cur = @ + 1]
          ELSE [queries[t] EXCEPT !.move[idx[t]] = @ + 1])
    /\ UNCHANGED <<impl, events, pc, legal_moves, in_check, locals, result,
                   retBy, scanned, bestReplies>>

\* A return statement of the selector.
Return(t, value, site) ==
    /\ result' = Upd(result, t, value)
    /\ retBy' = Upd(retBy, t, site)
    /\ pc' = Upd(pc, t, "done")

\* engine.analyse returns (or raises) to thread t.
Leave(t) == engineBusy' = engineBusy \ {t}

\* SelectorEnter without "if board.is_check()": check is not tested.
SelectorEnterNoCheck(t) ==
    /\ pc[t] = "start"
    /\ IF legal_moves[t] = 0 THEN Return(t, None, "no_legal")
       ELSE /\ pc' = Upd(pc, t, "baseline")
            /\ UNCHANGED <<result, retBy>>
    /\ UNCHANGED <<impl, engineBusy, events, legal_moves, in_check, locals,
                   scanned, bestReplies, queries>>

\* SelectorEnter without "if not legal_moves: return None".
SelectorEnterNoEmpty(t) ==
    /\ pc[t] = "start"
    /\ pc' = Upd(pc, t, IF in_check[t] THEN "check_best" ELSE "baseline")
    /\ UNCHANGED <<result, retBy>>
    /\ UNCHANGED <<impl, engineBusy, events, legal_moves, in_check, locals,
                   scanned, bestReplies, queries>>

\* Lines 79-84: entry, the empty-position return and the check test.
SelectorEnter(t) ==
    /\ pc[t] = "start"
    /\ IF legal_moves[t] = 0 THEN Return(t, None, "no_legal")
       ELSE /\ pc' = Upd(pc, t, IF in_check[t] THEN "check_best" ELSE "baseline")
            /\ UNCHANGED <<result, retBy>>
    /\ UNCHANGED <<impl, engineBusy, events, legal_moves, in_check, locals,
                   scanned, bestReplies, queries>>

\* Lines 84-91: in check, the best move or, on failure, a random legal move.
CheckBest(t) ==
    /\ pc[t] = "check_best" /\ t \in engineBusy
    /\ Leave(t)
    /\ \E r \in BestReplies(legal_moves[t]) :
         /\ bestReplies' = Upd(bestReplies, t,
               Append(bestReplies[t], IF r.k = "pv" THEN Some(r.m) ELSE None))
         /\ IF r.k = "pv" THEN Return(t, Some(r.m), "check_best")
            ELSE \E m \in 1..legal_moves[t] : Return(t, Some(m), "check_random")
    /\ UNCHANGED <<impl, events, legal_moves, in_check, locals, scanned, queries>>

\* Lines 93-105: the baseline, 0 when the call raises or gives no centipawns,
\* and the initialisation of the scan's locals.
BaselineOn(t, R) ==
    /\ pc[t] = "baseline" /\ t \in engineBusy
    /\ Leave(t)
    /\ \E r \in R :
         LET cm == get_cp_and_mate_from_info(r) IN
         cur_cp' = Upd(cur_cp, t,
                       IF r.k = "raise" \/ cm[1] = None THEN 0 ELSE Val(cm[1]))
    /\ move_candidates' = Upd(move_candidates, t, <<>>)
    /\ mate_losses' = Upd(mate_losses, t, 0)
    /\ winning_mate_move' = Upd(winning_mate_move, t, None)
    /\ idx' = Upd(idx, t, 1)
    /\ pc' = Upd(pc, t, "scan")
    /\ UNCHANGED <<impl, events, legal_moves, in_check, result, retBy, scanned,
                   bestReplies, queries>>

\* ScanStep without the cp_cap_one_move test: every centipawn move is kept.
ScanStepNoCap(t, r) ==
    LET move == idx[t]
        cm == get_cp_and_mate_from_info(r)
        raised == r.k = "raise"
        isMate == ~raised /\ cm[2] # None
        isWin == isMate /\ Val(cm[2]) > 0
        kept == ~raised /\ ~isMate /\ cm[1] # None
    IN
    /\ scanned' = Upd(scanned, t, [scanned[t] EXCEPT ![move] = Outcome(r)])
    /\ winning_mate_move' = Upd(winning_mate_move, t,
          IF isWin THEN Some(move) ELSE winning_mate_move[t])
    /\ mate_losses' = Upd(mate_losses, t,
          IF isMate /\ ~isWin THEN mate_losses[t] + 1 ELSE mate_losses[t])
    /\ move_candidates' = Upd(move_candidates, t,
          IF kept THEN Append(move_candidates[t], <<Val(cm[1]), move>>)
          ELSE move_candidates[t])

\* One iteration of the scan loop, lines 107-138, for move idx[t].
ScanStep(t, r) ==
    LET move == idx[t]
        cm == get_cp_and_mate_from_info(r)
        cp_after == cm[1]
        mate_after == cm[2]
        drop == cur_cp[t] - Val(cp_after)
        raised == r.k = "raise"
        isMate == ~raised /\ mate_after # None
        isWin == isMate /\ Val(mate_after) > 0
        noCp == ~raised /\ ~isMate /\ cp_after = None
        kept == ~raised /\ ~isMate /\ ~noCp /\ ~(drop > cp_cap_one_move)
    IN
    /\ scanned' = Upd(scanned, t, [scanned[t] EXCEPT ![move] =
          Outcome(r)])
    /\ winning_mate_move' = Upd(winning_mate_move, t,
          IF isWin THEN Some(move) ELSE winning_mate_move[t])
    /\ mate_losses' = Upd(mate_losses, t,
          IF isMate /\ ~isWin THEN mate_losses[t] + 1 ELSE mate_losses[t])
    /\ move_candidates' = Upd(move_candidates, t,
          IF kept THEN Append(move_candidates[t], <<Val(cp_after), move>>)
          ELSE move_candidates[t])

ScanMoveOn(t, R) ==
    /\ pc[t] = "scan" /\ t \in engineBusy
    /\ Leave(t)
    /\ \E r \in R : ScanStep(t, r)
    /\ IF idx[t] < legal_moves[t]
       THEN idx' = Upd(idx, t, idx[t] + 1) /\ UNCHANGED pc
       ELSE pc' = Upd(pc, t, "decide") /\ UNCHANGED idx
    /\ UNCHANGED <<impl, events, legal_moves, in_check, cur_cp, result, retBy,
                   bestReplies, queries>>

\* RatioExceeded with floor division: mate_losses // total > 0.25.
RatioExceededFloorDiv(losses, total) == (losses \div total) * survival_mate_ratio_den > 1

\* mate_losses / total > 0.25
RatioExceeded(losses, total) == losses * survival_mate_ratio_den > total

\* Decide with the two tests in the other order: the ratio rule first.
DecideRatioFirst(t) ==
    /\ pc[t] = "decide"
    /\ IF RatioExceeded(mate_losses[t], legal_moves[t])
       THEN pc' = Upd(pc, t, "ratio_best") /\ UNCHANGED <<result, retBy>>
       ELSE IF winning_mate_move[t] # None
       THEN Return(t, winning_mate_move[t], "winning_mate")
       ELSE pc' = Upd(pc, t, "floor") /\ UNCHANGED <<result, retBy>>
    /\ UNCHANGED <<impl, engineBusy, events, legal_moves, in_check, locals,
                   scanned, bestReplies, queries>>

\* Lines 140-143: the winning mate, else the mate-loss ratio test.
Decide(t) ==
    /\ pc[t] = "decide"
    /\ IF winning_mate_move[t] # None
       THEN Return(t, winning_mate_move[t], "winning_mate")
       ELSE /\ pc' = Upd(pc, t, IF RatioExceeded(mate_losses[t], legal_moves[t])
                                 THEN "ratio_best" ELSE "floor")
            /\ UNCHANGED <<result, retBy>>
    /\ UNCHANGED <<impl, engineBusy, events, legal_moves, in_check, locals,
                   scanned, bestReplies, queries>>

\* RatioBest whose handler never returns: both copies fall through.
RatioBestFallThrough(t) ==
    /\ pc[t] = "ratio_best" /\ t \in engineBusy
    /\ Leave(t)
    /\ \E r \in BestReplies(legal_moves[t]) :
         /\ bestReplies' = Upd(bestReplies, t,
               Append(bestReplies[t], IF r.k = "pv" THEN Some(r.m) ELSE None))
         /\ IF r.k = "pv" THEN Return(t, Some(r.m), "ratio_best")
            ELSE pc' = Upd(pc, t, "floor") /\ UNCHANGED <<result, retBy>>
    /\ UNCHANGED <<impl, events, legal_moves, in_check, locals, scanned, queries>>

\* Lines 143-149 of main.py: the best move, else a random legal move.
\* Lines 202-208 of bot.py: the best move, else the handler only prints and
\* control goes on to the floor test.
RatioBest(t) ==
    /\ pc[t] = "ratio_best" /\ t \in engineBusy
    /\ Leave(t)
    /\ \E r \in BestReplies(legal_moves[t]) :
         /\ bestReplies' = Upd(bestReplies, t,
               Append(bestReplies[t], IF r.k = "pv" THEN Some(r.m) ELSE None))
         /\ IF r.k = "pv" THEN Return(t, Some(r.m), "ratio_best")
            ELSE IF impl = "main.py"
            THEN \E m \in 1..legal_moves[t] : Return(t, Some(m), "ratio_random")
            ELSE pc' = Upd(pc, t, "floor") /\ UNCHANGED <<result, retBy>>
    /\ UNCHANGED <<impl, events, legal_moves, in_check, locals, scanned, queries>>

\* Lines 151-154: the fresh evaluation of the position against the floor.
FloorOn(t, R) ==
    /\ pc[t] = "floor" /\ t \in engineBusy
    /\ Leave(t)
    /\ \E r \in R :
         LET pos_cp == get_cp_and_mate_from_info(r)[1] IN
         pc' = Upd(pc, t,
                   IF r.k # "raise" /\ pos_cp # None /\ Val(pos_cp) < survival_eval_floor
                   THEN "floor_best" ELSE "pick")
    /\ UNCHANGED <<impl, events, legal_moves, in_check, locals, result, retBy,
                   scanned, bestReplies, queries>>

\* Lines 156-159: the best move; a failure is swallowed.
FloorBest(t) ==
    /\ pc[t] = "floor_best" /\ t \in engineBusy
    /\ Leave(t)
    /\ \E r \in BestReplies(legal_moves[t]) :
         /\ bestReplies' = Upd(bestReplies, t,
               Append(bestReplies[t], IF r.k = "pv" THEN Some(r.m) ELSE None))
         /\ IF r.k = "pv" THEN Return(t, Some(r.m), "floor_best")
            ELSE pc' = Upd(pc, t, "pick") /\ UNCHANGED <<result, retBy>>
    /\ UNCHANGED <<impl, events, legal_moves, in_check, locals, scanned, queries>>

\* Worst with max in place of min.
WorstByMax(cands) ==
    LET i == CHOOSE i \in 1..Len(cands) :
                 /\ \A j \in 1..Len(cands) : cands[j][1] <= cands[i][1]
                 /\ \A j \in 1..(i - 1) : cands[j][1] < cands[i][1]
    IN cands[i][2]

\* min(move_candidates, key=lambda x: x[0])[1]: the first of the minimal ones.
Worst(cands) ==
    LET i == CHOOSE i \in 1..Len(cands) :
                 /\ \A j \in 1..Len(cands) : cands[j][1] >= cands[i][1]
                 /\ \A j \in 1..(i - 1) : cands[j][1] > cands[i][1]
    IN cands[i][2]

\* Lines 161-166: the worst candidate, if there is one.
Pick(t) ==
    /\ pc[t] = "pick"
    /\ IF move_candidates[t] # <<>>
       THEN Return(t, Some(Worst(move_candidates[t])), "worst")
       ELSE pc' = Upd(pc, t, "fallback_best") /\ UNCHANGED <<result, retBy>>
    /\ UNCHANGED <<impl, engineBusy, events, legal_moves, in_check, locals,
                   scanned, bestReplies, queries>>

\* Lines 167-171: no candidate: the best move, else a random legal move.
FallbackBest(t) ==
    /\ pc[t] = "fallback_best" /\ t \in engineBusy
    /\ Leave(t)
    /\ \E r \in BestReplies(legal_moves[t]) :
         /\ bestReplies' = Upd(bestReplies, t,
               Append(bestReplies[t], IF r.k = "pv" THEN Some(r.m) ELSE None))
         /\ IF r.k = "pv" THEN Return(t, Some(r.m), "fallback_best")
            ELSE \E m \in 1..legal_moves[t] : Return(t, Some(m), "fallback_random")
    /\ UNCHANGED <<impl, events, legal_moves, in_check, locals, scanned, queries>>

\* ------------------------------------------------- one call of the selector
Baseline(t) == BaselineOn(t, BaseReplies)
ScanMove(t) == ScanMoveOn(t, AfterReplies)
Floor(t) == FloorOn(t, BaseReplies)

\* The locals and the record of a call, before the call.
FreshCall ==
    /\ cur_cp = [t \in Games |-> 0]
    /\ idx = [t \in Games |-> 1]
    /\ move_candidates = [t \in Games |-> <<>>]
    /\ mate_losses = [t \in Games |-> 0]
    /\ winning_mate_move = [t \in Games |-> None]
    /\ result = [t \in Games |-> None]
    /\ retBy = [t \in Games |-> "none"]
    /\ bestReplies = [t \in Games |-> <<>>]
    /\ queries = [t \in Games |-> NoQueries]

\* The answers the evaluator would give for the moves of a position with n
\* legal moves that is in check (c), drawn from R; nothing is fixed before
\* it is asked otherwise.
WouldGive(n, c, R) ==
    IF c THEN {[m \in 1..MaxMoves |-> IF m <= n THEN f[m] ELSE Unseen] :
                 f \in [1..n -> {Outcome(r) : r \in R}]}
    ELSE {[m \in 1..MaxMoves |-> Unseen]}

\* ------------------------------------------------------------ the games
\* main, lines 222-227: a gameStart event starts the game's handler thread.
GameStart(g) ==
    /\ pc[g] = "idle"
    /\ events[g] > 0
    /\ pc' = Upd(pc, g, "stream")
    /\ UNCHANGED <<impl, engineBusy, events, legal_moves, in_check, locals,
                   result, retBy, scanned, bestReplies, queries>>

\* handle_game, lines 181-194 and 203-204: the next event of the game's
\* stream.  When it is a gameFull or gameState event, the bot is to move
\* and the game is not over (so there is a legal move), the selector is
\* called on a copy of the rebuilt board.
StreamEvent(g) ==
    /\ pc[g] = "stream"
    /\ events[g] > 0
    /\ events' = Upd(events, g, events[g] - 1)
    /\ \/ UNCHANGED <<pc, legal_moves, in_check, scanned>>
       \/ \E n \in 1..GameMaxMoves, c \in BOOLEAN :
            /\ legal_moves' = Upd(legal_moves, g, n)
            /\ in_check' = Upd(in_check, g, c)
            /\ \E f \in WouldGive(n, c, GameReplies) : scanned' = Upd(scanned, g, f)
            /\ pc' = Upd(pc, g, "start")
    /\ UNCHANGED <<impl, engineBusy, locals, result, retBy, bestReplies, queries>>

\* handle_game, lines 195-202: the move is sent (a failure is caught and
\* printed) and the thread waits for the next event; the call's frame is gone.
MakeMove(g) ==
    /\ pc[g] = "done"
    /\ pc' = Upd(pc, g, "stream")
    /\ cur_cp' = Upd(cur_cp, g, 0)
    /\ idx' = Upd(idx, g, 1)
    /\ move_candidates' = Upd(move_candidates, g, <<>>)
    /\ mate_losses' = Upd(mate_losses, g, 0)
    /\ winning_mate_move' = Upd(winning_mate_move, g, None)
    /\ result' = Upd(result, g, None)
    /\ retBy' = Upd(retBy, g, "none")
    /\ bestReplies' = Upd(bestReplies, g, <<>>)
    /\ queries' = Upd(queries, g, NoQueries)
    /\ scanned' = Upd(scanned, g, [m \in 1..MaxMoves |-> Unseen])
    /\ UNCHANGED <<impl, engineBusy, events, legal_moves, in_check>>

GameBaseline(t) == BaselineOn(t, GameReplies)
GameScanMove(t) == ScanMoveOn(t, GameReplies)
GameFloor(t) == FloorOn(t, GameReplies)

\* main() running: every game's gameStart event is still to come.
GamesInit ==
    /\ impl \in Impls
    /\ engineBusy = {}
    /\ events = [t \in Games |-> MaxEvents]
    /\ pc = [t \in Games |-> "idle"]
    /\ legal_moves = [t \in Games |-> 0]
    /\ in_check = [t \in Games |-> FALSE]
    /\ scanned = [t \in Games |-> [m \in 1..MaxMoves |-> Unseen]]
    /\ FreshCall

GamesNext ==
    \E t \in Games :
        \/ GameStart(t)
        \/ StreamEvent(t)
        \/ MakeMove(t)
        \/ EngineCall(t)
        \/ SelectorEnter(t)
        \/ CheckBest(t)
        \/ GameBaseline(t)
        \/ GameScanMove(t)
        \/ Decide(t)
        \/ RatioBest(t)
        \/ GameFloor(t)
        \/ FloorBest(t)
        \/ Pick(t)
        \/ FallbackBest(t)

GamesSpec == GamesInit /\ [][GamesNext]_vars

\* pick_worst_survivable_move(board, engine) called once, on any position.
Init ==
    /\ impl \in Impls
    /\ engineBusy = {}
    /\ events = [t \in Games |-> 0]
    /\ pc = [t \in Games |-> IF t = "g1" THEN "start" ELSE "idle"]
    /\ \E n \in 0..MaxMoves, c \in BOOLEAN :
         /\ legal_moves = [t \in Games |-> IF t = "g1" THEN n ELSE 0]
         /\ in_check = [t \in Games |-> t = "g1" /\ c]
         /\ \E f \in WouldGive(n, c, AfterReplies) :
              scanned = [t \in Games |-> IF t = "g1" THEN f
                                         ELSE [m \in 1..MaxMoves |-> Unseen]]
    /\ FreshCall

SelectorStep(t) ==
    \/ EngineCall(t)
    \/ SelectorEnter(t)
    \/ CheckBest(t)
    \/ Baseline(t)
    \/ ScanMove(t)
    \/ Decide(t)
    \/ RatioBest(t)
    \/ Floor(t)
    \/ FloorBest(t)
    \/ Pick(t)
    \/ FallbackBest(t)

Next == \E t \in Games : SelectorStep(t)

Spec == Init /\ [][Next]_vars

\* ------------------------------------------------------------- the claims
Done(t) == pc[t] = "done"
Moves(t) == 1..legal_moves[t]
Returned(t) == Val(result[t])

\* The evaluator's answer for the position after move m.
MateFor(t, m) == scanned[t][m].st = "ok" /\ scanned[t][m].mate # None
                 /\ Val(scanned[t][m].mate) > 0
MateAgainst(t, m) == scanned[t][m].st = "ok" /\ scanned[t][m].mate # None
                     /\ Val(scanned[t][m].mate) < 0
HasCp(t, m) == scanned[t][m].st = "ok" /\ scanned[t][m].mate = None
               /\ scanned[t][m].cp # None
CpAfter(t, m) == Val(scanned[t][m].cp)

\* The per-move scan asked about move m, and what it then did with it.
Asked(t, m) == queries[t].move[m] > 0
Survived(t, m) == Asked(t, m) /\ HasCp(t, m)
                  /\ cur_cp[t] - CpAfter(t, m) <= cp_cap_one_move
DroppedByCap(t, m) == Asked(t, m) /\ HasCp(t, m)
                      /\ cur_cp[t] - CpAfter(t, m) > cp_cap_one_move

\* C1 as stated: whenever the selector returns a move, no move that survived
\* all filters of the scan has a strictly lower post-move centipawn
\* evaluation than the returned move.
C1_Original ==
    \A t \in Games :
        Done(t) /\ result[t] # None /\ Asked(t, Returned(t)) /\ HasCp(t, Returned(t))
        => \A m \in Moves(t) : Survived(t, m) => CpAfter(t, m) >= CpAfter(t, Returned(t))

\* C1 amended: when the selector returns through its worst-move selection
\* (lines 161-164), the returned move survived all filters and no surviving
\* move has a strictly lower post-move centipawn evaluation.
C1_WorstIsMinimum ==
    \A t \in Games :
        Done(t) /\ retBy[t] = "worst"
        => /\ result[t] # None
           /\ Survived(t, Returned(t))
           /\ \A m \in Moves(t) :
                Survived(t, m) => CpAfter(t, m) >= CpAfter(t, Returned(t))

C1_Witness ==
    \E t \in Games :
        /\ Done(t) /\ retBy[t] = "worst"
        /\ \E m \in Moves(t) : Survived(t, m) /\ CpAfter(t, m) > CpAfter(t, Returned(t))
        /\ \E m \in Moves(t) : MateAgainst(t, m)

\* C2: a move returned by worst-move selection has a post-move centipawn
\* evaluation of at least cp_cap_total.
C2_FloorRespected ==
    \A t \in Games :
        Done(t) /\ retBy[t] = "worst" => CpAfter(t, Returned(t)) >= cp_cap_total

\* C3 as stated: if the evaluator gives Mate(n), n > 0, for the position
\* after some legal move, the returned move is such a move.
C3_Original ==
    \A t \in Games :
        Done(t) /\ (\E m \in Moves(t) : MateFor(t, m))
        => result[t] # None /\ MateFor(t, Returned(t))

\* C3 amended: if the position is not in check and the evaluator gives
\* Mate(n), n > 0, for the position after some legal move, the returned move
\* is such a move.
C3_WinningMateReturned ==
    \A t \in Games :
        Done(t) /\ ~in_check[t] /\ (\E m \in Moves(t) : MateFor(t, m))
        => result[t] # None /\ MateFor(t, Returned(t)) /\ retBy[t] = "winning_mate"

C3_Witness ==
    \E t \in Games :
        /\ Done(t) /\ ~in_check[t] /\ result[t] # None
        /\ MateFor(t, Returned(t))
        /\ Returned(t) < legal_moves[t]
        /\ RatioExceeded(Cardinality({m \in Moves(t) : MateAgainst(t, m)}), legal_moves[t])
        /\ \E m \in Moves(t) : Survived(t, m)

\* C4: in check with a legal move, when the best-move query succeeds the
\* selector returns the evaluator's top move, after that one query alone:
\* no baseline query and no per-move query.
C4_InCheckBestMove ==
    \A t \in Games :
        Done(t) /\ in_check[t] /\ legal_moves[t] > 0
        /\ (\A i \in 1..Len(bestReplies[t]) : bestReplies[t][i] # None)
        => /\ Len(bestReplies[t]) = 1
           /\ result[t] = bestReplies[t][1]
           /\ queries[t].cur = 0
           /\ \A m \in 1..MaxMoves : queries[t].move[m] = 0

C4_Witness ==
    \E t \in Games :
        /\ Done(t) /\ in_check[t] /\ legal_moves[t] > 1
        /\ bestReplies[t] # <<>> /\ bestReplies[t][1] # None
        /\ \E m \in Moves(t) : MateFor(t, m)
        /\ ~MateFor(t, Returned(t))

\* C5: not in check, no legal move a winning mate, strictly more than a
\* quarter of all legal moves a forced mate against the perspective side, and
\* the best-move query succeeds: the selector returns the evaluator's best
\* move, by the mate-loss ratio rule and not by worst-move selection.
C5_RatioRuleBestMove ==
    \A t \in Games :
        Done(t) /\ ~in_check[t] /\ legal_moves[t] > 0
        /\ (\A m \in Moves(t) : ~MateFor(t, m))
        /\ Cardinality({m \in Moves(t) : MateAgainst(t, m)}) * 4 > legal_moves[t]
        /\ (\A i \in 1..Len(bestReplies[t]) : bestReplies[t][i] # None)
        => /\ Len(bestReplies[t]) = 1
           /\ result[t] = bestReplies[t][1]
           /\ retBy[t] = "ratio_best"

C5_Witness ==
    \E t \in Games :
        /\ Done(t) /\ retBy[t] = "ratio_best"
        /\ Cardinality({m \in Moves(t) : MateAgainst(t, m)}) = 2
        /\ legal_moves[t] = 4
        /\ \E m \in Moves(t) : Survived(t, m) /\ m # Returned(t)
                               /\ HasCp(t, Returned(t))
                               /\ CpAfter(t, m) < CpAfter(t, Returned(t))

\* C6 as stated: a move the scan discarded for its drop is never returned
\* when some other move was retained as a candidate.
C6_Original ==
    \A t \in Games :
        Done(t) /\ result[t] # None /\ (\E m \in Moves(t) : Survived(t, m))
        => ~DroppedByCap(t, Returned(t))

\* C6 amended: a move the scan discarded for its drop is returned, when some
\* other move was retained as a candidate, only by the best-move or random
\* fallback of the mate-loss ratio rule or of the evaluation-floor rule;
\* never by worst-move selection.
C6_DroppedOnlyByFallback ==
    \A t \in Games :
        Done(t) /\ result[t] # None /\ (\E m \in Moves(t) : Survived(t, m))
        /\ DroppedByCap(t, Returned(t))
        => retBy[t] \in {"ratio_best", "ratio_random", "floor_best"}

C6_Witness ==
    \E t \in Games :
        /\ Done(t) /\ retBy[t] = "worst"
        /\ \E m \in Moves(t) : DroppedByCap(t, m) /\ CpAfter(t, m) < CpAfter(t, Returned(t))

\* C7: a call never stops short of a return, whatever the evaluator does;
\* it returns None exactly when there is no legal move, and a legal move
\* otherwise.
C7_AlwaysReturns ==
    \A t \in Games :
        pc[t] \notin {"idle", "stream"}
        => /\ Done(t) \/ ENABLED SelectorStep(t)
           /\ Done(t) => /\ (result[t] = None) <=> (legal_moves[t] = 0)
                         /\ result[t] # None => Returned(t) \in Moves(t)

C7_Witness ==
    \E t \in Games :
        /\ Done(t) /\ retBy[t] = "fallback_random" /\ legal_moves[t] > 1
        /\ queries[t].cur = 2
        /\ \A m \in Moves(t) : scanned[t][m].st = "failed"
        /\ \A i \in 1..Len(bestReplies[t]) : bestReplies[t][i] = None

\* C8 as stated: per call, at most one query of the position's evaluation,
\* at most one query per legal move, at most one best-move query.
C8_Original ==
    \A t \in Games :
        /\ queries[t].cur <= 1
        /\ queries[t].best <= 1
        /\ \A m \in 1..MaxMoves : queries[t].move[m] <= (IF m <= legal_moves[t] THEN 1 ELSE 0)

\* C8 amended: per call, at most two queries of the position's evaluation
\* (the baseline and the floor re-query), at most one query per legal move,
\* and at most two best-move queries in main.py, three in bot.py.
C8_QueriesBounded ==
    \A t \in Games :
        /\ queries[t].cur <= 2
        /\ queries[t].best <= (IF impl = "main.py" THEN 2 ELSE 3)
        /\ \A m \in 1..MaxMoves : queries[t].move[m] <= (IF m <= legal_moves[t] THEN 1 ELSE 0)

C8_Witness ==
    \E t \in Games :
        /\ Done(t) /\ impl = "main.py"
        /\ queries[t].cur = 2 /\ queries[t].best = 2
        /\ \A m \in Moves(t) : queries[t].move[m] = 1
        /\ legal_moves[t] > 1

\* C9: when the mate-loss ratio rule fires and its best-move query fails, the
\* selector returns a random legal move there and goes no further.
C9_RatioFailureReturnsRandom ==
    \A t \in Games :
        /\ pc[t] \notin {"idle", "stream", "start", "check_best", "baseline", "scan", "decide"}
        /\ ~in_check[t] /\ legal_moves[t] > 0
        /\ winning_mate_move[t] = None
        /\ RatioExceeded(mate_losses[t], legal_moves[t])
        /\ bestReplies[t] # <<>> /\ bestReplies[t][1] = None
        => Done(t) /\ retBy[t] = "ratio_random"

\* C10: at most one thread is inside engine.analyse on the shared engine.
C10_OneQueryInFlight == Cardinality(engineBusy) <= 1

====
